---- MODULE Spec2Model ----
(***************************************************************************)
(* A model of streamlit_app.py: the query parser (parse_query), the filter *)
(* engine (search_properties), the summary generator (generate_summary),   *)
(* the card formatter (format_property_card) and the main script that a    *)
(* Streamlit rerun executes top to bottom.                                 *)
(*                                                                         *)
(* Text is modelled by TLA+ strings, scanned character by character with   *)
(* Len, SubSeq and \o.  A Python value that may be None or NaN is a tagged *)
(* tuple: Val(v), None or NaN.  Amounts are whole rupees (integers); the   *)
(* float products and quotients of the source are computed exactly.        *)
(***************************************************************************)
EXTENDS Integers, Sequences, FiniteSets, TLC

VARIABLES
    df,             \* the listing table returned by load_data()
    session_state,  \* st.session_state: a function on the keys present
    pc,             \* where the run is: "start", "parsed", ..., "raised"
    query,          \* the query text being processed (None: no query)
    filters,        \* the result of parse_query
    limit,          \* the limit handed to search_properties
    results,        \* the result of search_properties
    summary,        \* the result of generate_summary
    cards           \* the cards rendered for the results

vars == <<df, session_state, pc, query, filters, limit, results, summary, cards>>

----------------------------------------------------------------------------
(* Python values *)

None == <<"None">>
NaN == <<"nan">>
Val(v) == <<"val", v>>

\* pd.notna(x): neither NaN nor None
notna(x) == x # NaN /\ x # None

\* the truth value Python's `if x:` gives a str-or-None
truthy_str(x) == x # None /\ x # Val("")

\* the truth value Python's `if x:` gives a number-or-None (0 and 0.0 are falsy)
truthy_num(x) == x # None /\ x # Val(0)

Min(S) == CHOOSE x \in S : \A y \in S : x <= y

RECURSIVE Pow10(_)
Pow10(n) == IF n = 0 THEN 1 ELSE 10 * Pow10(n - 1)

----------------------------------------------------------------------------
(* str operations *)

Char(s, i) == SubSeq(s, i, i)

\* the cased letters of the modelled alphabet: A-Z and the C-cedilla of the
\* budget patterns
UpperLetters == "ABCDEFGHIJKLMNOPQRSTUVWXYZÇ"
LowerLetters == "abcdefghijklmnopqrstuvwxyzç"

UpperSet == {Char(UpperLetters, i) : i \in 1..Len(UpperLetters)}
LowerSet == {Char(LowerLetters, i) : i \in 1..Len(LowerLetters)}

to_lower ==
    [c \in UpperSet |->
        Char(LowerLetters, CHOOSE i \in 1..Len(UpperLetters) : Char(UpperLetters, i) = c)]
to_upper ==
    [c \in LowerSet |->
        Char(UpperLetters, CHOOSE i \in 1..Len(LowerLetters) : Char(LowerLetters, i) = c)]

IsUpper(c) == c \in UpperSet
IsLower(c) == c \in LowerSet

lower_char(c) == IF IsUpper(c) THEN to_lower[c] ELSE c

upper_char(c) == IF IsLower(c) THEN to_upper[c] ELSE c

\* str.lower()
RECURSIVE lower(_)
lower(s) == IF s = "" THEN "" ELSE lower_char(Head(s)) \o lower(Tail(s))

\* str.title(): a letter that follows a letter is lower-cased, any other letter
\* is upper-cased
RECURSIVE title_from(_, _)
title_from(s, after_letter) ==
    IF s = "" THEN ""
    ELSE LET c == Head(s)
             cased == IsUpper(c) \/ IsLower(c)
         IN (IF after_letter THEN lower_char(c) ELSE upper_char(c))
                \o title_from(Tail(s), cased)

title(s) == title_from(s, FALSE)

\* str.replace(old, new) for a one-character old
RECURSIVE replace(_, _, _)
replace(s, old, new) ==
    IF s = "" THEN ""
    ELSE (IF Head(s) = old THEN new ELSE Head(s)) \o replace(Tail(s), old, new)

\* Python's `sub in s`
Contains(s, sub) ==
    \E i \in 1..(Len(s) - Len(sub) + 1) : SubSeq(s, i, i + Len(sub) - 1) = sub

\* s[i:].startswith(sub), 1-based
StartsAt(s, i, sub) ==
    /\ i >= 1
    /\ i + Len(sub) - 1 <= Len(s)
    /\ SubSeq(s, i, i + Len(sub) - 1) = sub

EndsWith(s, sub) == StartsAt(s, Len(s) - Len(sub) + 1, sub)

----------------------------------------------------------------------------
(* re.search for the three patterns of parse_query *)

Digits == {"0", "1", "2", "3", "4", "5", "6", "7", "8", "9"}
NumChars == Digits \cup {"."}           \* the class [\d.]
Whitespace == {" ", "\t", "\n"}         \* the class \s

\* the first position at or after i whose character is outside class C
RECURSIVE SkipClass(_, _, _)
SkipClass(s, i, C) ==
    IF i <= Len(s) /\ Char(s, i) \in C THEN SkipClass(s, i + 1, C) ELSE i

\* (\d+)\s*bhk matched at position i: the group, or None.  The classes \d, \s
\* and "b" are disjoint, so the greedy match is the only candidate.
bhk_match_at(s, i) ==
    LET e == SkipClass(s, i, Digits)
        f == SkipClass(s, e, Whitespace)
    IN IF e > i /\ StartsAt(s, f, "bhk") THEN Val(SubSeq(s, i, e - 1)) ELSE None

\* re.search(r'(\d+)\s*bhk', s): the leftmost match
bhk_search(s) ==
    LET hits == {i \in 1..Len(s) : bhk_match_at(s, i) # None}
    IN IF hits = {} THEN None ELSE bhk_match_at(s, Min(hits))

\* The character U+201A (single low-9 quotation mark) of the source cannot be
\* written in a TLA+ string; the model writes U+00B8 for it, a character that
\* occurs nowhere else in the source or in the modelled inputs.
LOW9 == "¸"

\* The currency text of the source: the three characters U+201A, U+00C7, U+03C0.
RUPEE == LOW9 \o "Çπ"

\* In both budget patterns the currency text is followed by "?", which applies
\* to its last character only: U+201A and U+00C7 are required literals and
\* U+03C0 is optional.
CURRENCY_REQUIRED == LOW9 \o "Ç"
CURRENCY_OPTIONAL == "π"

\* the budget pattern with the given unit matched at position i: the group, or
\* None.  Consecutive pattern items match disjoint character classes, so the
\* greedy match is the only candidate.
budget_match_at(s, i, unit) ==
    LET b == SkipClass(s, i + Len("under"), Whitespace)
        c == b + Len(CURRENCY_REQUIRED)
        c2 == IF StartsAt(s, c, CURRENCY_OPTIONAL) THEN c + 1 ELSE c
        d == SkipClass(s, c2, Whitespace)
        e == SkipClass(s, d, NumChars)
        f == SkipClass(s, e, Whitespace)
    IN IF /\ StartsAt(s, i, "under")
          /\ StartsAt(s, b, CURRENCY_REQUIRED)
          /\ e > d
          /\ StartsAt(s, f, unit)
       THEN Val(SubSeq(s, d, e - 1))
       ELSE None

\* re.search of the budget pattern with the given unit: the leftmost match
budget_search(s, unit) ==
    LET hits == {i \in 1..Len(s) : budget_match_at(s, i, unit) # None}
    IN IF hits = {} THEN None ELSE budget_match_at(s, Min(hits), unit)

----------------------------------------------------------------------------
(* float() of a group of [\d.]+ *)

DotCount(t) == Cardinality({i \in 1..Len(t) : Char(t, i) = "."})

\* float(t) returns: t has a digit and at most one point; otherwise ValueError
is_float_literal(t) ==
    /\ \E i \in 1..Len(t) : Char(t, i) \in Digits
    /\ DotCount(t) <= 1

DigitVal(c) == CHOOSE d \in 0..9 : ToString(d) = c

\* the digits of t read as one integer, the point dropped
RECURSIVE Mantissa(_)
Mantissa(t) ==
    IF t = "" THEN 0
    ELSE LET c == Char(t, Len(t))
             r == SubSeq(t, 1, Len(t) - 1)
         IN IF c = "." THEN Mantissa(r) ELSE 10 * Mantissa(r) + DigitVal(c)

\* the number of digits after the point
FracLen(t) ==
    IF DotCount(t) = 0 THEN 0
    ELSE Len(t) - (CHOOSE i \in 1..Len(t) : Char(t, i) = ".")

\* float(t) * unit, in whole rupees
float_times(t, unit) == (Mantissa(t) * unit) \div Pow10(FracLen(t))

CRORE == 10000000
LAKH == 100000

----------------------------------------------------------------------------
(* parse_query *)

cities == <<
    [city_name |-> "pune", variations |-> <<"pune", "pimpri", "chinchwad">>],
    [city_name |-> "mumbai", variations |-> <<"mumbai", "bombay", "chembur">>],
    [city_name |-> "bangalore", variations |-> <<"bangalore", "bengaluru">>] >>

\* the value of `city` after the outer loop has run over the first k entries of
\* cities: the inner loop's break leaves only the inner loop, so a later entry
\* with a matching variation assigns city again
RECURSIVE city_after(_, _)
city_after(query_lower, k) ==
    IF k = 0 THEN None
    ELSE LET entry == cities[k]
         IN IF \E j \in 1..Len(entry.variations) :
                    Contains(query_lower, entry.variations[j])
            THEN Val(title(entry.city_name))
            ELSE city_after(query_lower, k - 1)

\* the possession status
possession_of(query_lower) ==
    IF Contains(query_lower, "ready") \/ Contains(query_lower, "ready to move")
    THEN Val("READY_TO_MOVE")
    ELSE IF Contains(query_lower, "construction")
                \/ Contains(query_lower, "under construction")
         THEN Val("UNDER_CONSTRUCTION")
         ELSE None

\* budget_max as the two `if` statements assign it, crore first, lakh second
budget_max_of(cr_match, lakh_match) ==
    LET after_cr == IF cr_match # None
                    THEN Val(float_times(cr_match[2], CRORE))
                    ELSE None
    IN IF lakh_match # None
       THEN Val(float_times(lakh_match[2], LAKH))
       ELSE after_cr

\* parse_query(query): [raised |-> TRUE] when float() raises ValueError,
\* else the filter record
parse_query(q) ==
    LET query_lower == lower(q)
        bhk_match == bhk_search(query_lower)
        cr_match == budget_search(query_lower, "cr")
        lakh_match == budget_search(query_lower, "lakh")
    IN IF \/ (cr_match # None /\ ~is_float_literal(cr_match[2]))
          \/ (lakh_match # None /\ ~is_float_literal(lakh_match[2]))
       THEN [raised |-> TRUE]
       ELSE [raised |-> FALSE,
             city |-> city_after(query_lower, Len(cities)),
             bhk |-> IF bhk_match # None THEN Val(bhk_match[2] \o "BHK") ELSE None,
             budget_max |-> budget_max_of(cr_match, lakh_match),
             possession |-> possession_of(query_lower)]

----------------------------------------------------------------------------
(* number formatting *)

\* n written with at least `width` digits, zero-padded on the left
RECURSIVE ZeroPad(_, _)
ZeroPad(n, width) ==
    IF width <= 1 /\ n < 10 THEN ToString(n)
    ELSE ZeroPad(n \div 10, width - 1) \o ToString(n % 10)

\* <<quotient, remainder>> of num * 10^dp by den, by long division (the
\* product itself may exceed the model checker's integers)
RECURSIVE scaled_div(_, _, _)
scaled_div(num, den, dp) ==
    IF dp = 0 THEN << num \div den, num % den >>
    ELSE LET p == scaled_div(num, den, dp - 1)
         IN << p[1] * 10 + (p[2] * 10) \div den, (p[2] * 10) % den >>

\* f"{num/den:.<dp>f}" for num >= 0, den > 0: the quotient rounded to dp
\* decimals, a tie going to the even digit.  (Python rounds the binary value
\* of the quotient; the two agree except on decimal ties that binary floating
\* point cannot represent, and the modelled amounts have none of those.)
fmt_fixed(num, den, dp) ==
    LET q == scaled_div(num, den, dp)[1]
        r == scaled_div(num, den, dp)[2]
        rounded == IF 2 * r > den THEN q + 1
                   ELSE IF 2 * r < den THEN q
                   ELSE IF q % 2 = 0 THEN q ELSE q + 1
    IN IF dp = 0 THEN ToString(rounded)
       ELSE ToString(rounded \div Pow10(dp)) \o "." \o ZeroPad(rounded % Pow10(dp), dp)

----------------------------------------------------------------------------
(* search_properties *)

\* DataFrame.head(n)
head(rows, n) ==
    IF n >= 0
    THEN SubSeq(rows, 1, IF n < Len(rows) THEN n ELSE Len(rows))
    ELSE SubSeq(rows, 1, IF Len(rows) + n > 0 THEN Len(rows) + n ELSE 0)

\* result_df['fullAddress'].str.contains(city, case=False, na=False), row by row
address_contains(row, city) ==
    /\ notna(row.fullAddress)
    /\ Contains(lower(row.fullAddress[2]), lower(city))

\* result_df['type'] == bhk and result_df['status'] == possession, row by row:
\* a missing cell compares unequal
cell_equals(cell, v) == notna(cell) /\ cell[2] = v

\* result_df['price'] <= budget_max, row by row: a missing price compares False
price_at_most(row, budget_max) == notna(row.price) /\ row.price[2] <= budget_max

\* the rows that are left when the four `if` statements have run
filter_rows(rows, f) ==
    LET by_city(r) == truthy_str(f.city) => address_contains(r, f.city[2])
        by_bhk(r) == truthy_str(f.bhk) => cell_equals(r.type, f.bhk[2])
        by_budget(r) == truthy_num(f.budget_max) => price_at_most(r, f.budget_max[2])
        by_possession(r) ==
            truthy_str(f.possession) => cell_equals(r.status, f.possession[2])
        keep(r) == by_city(r) /\ by_bhk(r) /\ by_budget(r) /\ by_possession(r)
    IN SelectSeq(rows, keep)

\* search_properties with the filters run on the caller's frame itself (no
\* df.copy(), the rows dropped in place)
search_properties_in_place(table, f, n) ==
    IF table = << >>
    THEN [df |-> table, result |-> table]
    ELSE [df |-> filter_rows(table, f), result |-> head(filter_rows(table, f), n)]

\* search_properties(df, filters, limit): `result` is the returned frame and
\* `df` is the caller's frame as the call leaves it (the filters run on
\* df.copy() and on the new frames that boolean indexing returns)
search_properties(table, f, n) ==
    IF table = << >>
    THEN [df |-> table, result |-> table]
    ELSE [df |-> table, result |-> head(filter_rows(table, f), n)]

----------------------------------------------------------------------------
(* generate_summary *)

NO_RESULTS ==
    "No properties found matching your criteria. Try adjusting your budget or location preferences."

\* " ".join(parts)
RECURSIVE join(_)
join(parts) ==
    IF parts = << >> THEN ""
    ELSE IF Len(parts) = 1 THEN parts[1]
    ELSE parts[1] \o " " \o join(Tail(parts))

\* results['price'].dropna()
prices_of(rows) ==
    LET has_price(r) == notna(r.price)
        priced == SelectSeq(rows, has_price)
    IN [i \in 1..Len(priced) |-> priced[i].price[2]]

RECURSIVE sum(_)
sum(xs) == IF xs = << >> THEN 0 ELSE Head(xs) + sum(Tail(xs))

\* budget_str of the budget clause
budget_str(budget_max) ==
    IF budget_max >= CRORE
    THEN RUPEE \o fmt_fixed(budget_max, CRORE, 1) \o " Cr"
    ELSE RUPEE \o fmt_fixed(budget_max, LAKH, 0) \o " L"

\* avg_str for prices.mean() = total / n
avg_str(total, n) ==
    IF total >= CRORE * n
    THEN RUPEE \o fmt_fixed(total, CRORE * n, 2) \o " Cr"
    ELSE RUPEE \o fmt_fixed(total, LAKH * n, 0) \o " L"

\* the first sentence: the clauses joined by spaces, then a period
first_sentence(count, f) ==
    LET parts ==
            << "Found " \o ToString(count) \o " "
                   \o (IF count = 1 THEN "property" ELSE "properties") >>
            \o (IF truthy_str(f.bhk)
                THEN << "matching your " \o f.bhk[2] \o " requirement" >> ELSE << >>)
            \o (IF truthy_str(f.city) THEN << "in " \o f.city[2] >> ELSE << >>)
            \o (IF truthy_num(f.budget_max)
                THEN << "under " \o budget_str(f.budget_max[2]) >> ELSE << >>)
    IN join(parts) \o "."

\* the second sentence, or "" when no result has a price
price_sentence(rows) ==
    LET prices == prices_of(rows)
    IN IF rows # << >> /\ "price" \in DOMAIN rows[1] /\ Len(prices) > 0
       THEN " Average price is around " \o avg_str(sum(prices), Len(prices)) \o "."
       ELSE ""

\* generate_summary without its `if count == 0` return
generate_summary_unguarded(rows, f) ==
    first_sentence(Len(rows), f) \o price_sentence(rows)

generate_summary(rows, f) ==
    IF Len(rows) = 0 THEN NO_RESULTS
    ELSE first_sentence(Len(rows), f) \o price_sentence(rows)

----------------------------------------------------------------------------
(* format_property_card *)

\* row.get(key, default)
get(row, key, default) == IF key \in DOMAIN row THEN row[key] ELSE default

\* str(x), the text an f-string puts for a text cell
str(x) == IF x = NaN THEN "nan" ELSE IF x = None THEN "None" ELSE x[2]

PRICE_ON_REQUEST == "Price on request"

price_str(row) ==
    LET price_raw == get(row, "price", Val(0))
    IN IF notna(price_raw) /\ price_raw[2] > 0
       THEN IF price_raw[2] >= CRORE
            THEN RUPEE \o fmt_fixed(price_raw[2], CRORE, 2) \o " Cr"
            ELSE RUPEE \o fmt_fixed(price_raw[2], LAKH, 2) \o " L"
       ELSE PRICE_ON_REQUEST

status_class(row) ==
    IF Contains(str(get(row, "status", Val(""))), "READY")
    THEN "status-ready" ELSE "status-construction"

status_display(row) == title(replace(str(get(row, "status", Val(""))), "_", " "))

amenities(row) ==
    (IF notna(get(row, "lift", None)) /\ get(row, "lift", None)[2]
     THEN << "Lift" >> ELSE << >>)
    \o (IF notna(get(row, "parkingType", None)) THEN << "Parking" >> ELSE << >>)
    \o (IF notna(get(row, "balcony", None)) /\ get(row, "balcony", None)[2] > 0
        THEN << ToString(row.balcony[2]) \o " Balcony" >> ELSE << >>)

\* "".join of the badge spans of amenities[:3]
RECURSIVE badges(_)
badges(a) ==
    IF a = << >> THEN ""
    ELSE "<span class=\"badge\">" \o Head(a) \o "</span>" \o badges(Tail(a))

amenities_html(row) == badges(head(amenities(row), 3))

\* The card: the f-string's lines without their indentation and their emoji.
format_property_card(row) ==
    "<div class=\"property-card\">"
    \o "<div class=\"property-title\"> " \o str(get(row, "projectName", Val("Property")))
    \o "</div>"
    \o "<div class=\"property-price\">" \o price_str(row) \o "</div>"
    \o "<div class=\"property-details\">"
    \o "<strong> Location:</strong> " \o str(get(row, "landmark", Val("N/A"))) \o "<br>"
    \o "<strong> Configuration:</strong> " \o str(get(row, "type", Val("N/A"))) \o "<br>"
    \o "<strong> Status:</strong> <span class=\"badge " \o status_class(row) \o "\">"
    \o status_display(row) \o "</span><br>"
    \o (IF notna(get(row, "carpetArea", None))
        THEN "<strong> Carpet Area:</strong> "
                 \o fmt_fixed(row.carpetArea[2], 1, 0) \o " sq.ft<br>"
        ELSE "")
    \o (IF notna(get(row, "bathrooms", None))
        THEN "<strong> Bathrooms:</strong> " \o ToString(row.bathrooms[2]) \o "<br>"
        ELSE "")
    \o "<strong> Amenities:</strong> "
    \o (IF amenities_html(row) # "" THEN amenities_html(row) ELSE "Contact for details")
    \o "</div></div>"

\* the cards of a frame, one for each row of results.iterrows()
render_cards(rows) == [i \in 1..Len(rows) |-> format_property_card(rows[i])]

----------------------------------------------------------------------------
(* the main script: one rerun, top to bottom *)

DEFAULT_LIMIT == 10

example_queries == <<
    "3BHK flat in Pune under " \o RUPEE \o "1.2 Cr",
    "2BHK ready to move in Mumbai",
    "Properties under 80 lakhs",
    "4BHK apartments near Baner",
    "1BHK under construction" >>

NO_FILTERS == [city |-> None, bhk |-> None, budget_max |-> None, possession |-> None]

\* st.session_state[key] = v
set_key(state, key, v) ==
    [k \in DOMAIN state \cup {key} |-> IF k = key THEN v ELSE state[k]]

\* del st.session_state[key]
del_key(state, key) == [k \in DOMAIN state \ {key} |-> state[k]]

\* st.session_state.messages.append(m)
append_message(state, m) == set_key(state, "messages", Append(state.messages, m))

\* the sidebar: the clicked example button, if any, stores its text
sidebar(state, clicked) ==
    IF clicked # None THEN set_key(state, "current_query", clicked[2]) ELSE state

\* the chat history is created on the first run of a session
init_history(state) ==
    IF "messages" \notin DOMAIN state THEN set_key(state, "messages", << >>) ELSE state

\* take_query without the `del` of the pending sidebar query
take_query_keeping(state, typed) ==
    IF "current_query" \in DOMAIN state
    THEN [query |-> Val(state.current_query), state |-> state]
    ELSE [query |-> typed, state |-> state]

\* the query of this rerun: the chat input's value, replaced by the pending
\* sidebar query, which is deleted from the session state
take_query(state, typed) ==
    IF "current_query" \in DOMAIN state
    THEN [query |-> Val(state.current_query), state |-> del_key(state, "current_query")]
    ELSE [query |-> typed, state |-> state]

\* The processing of a query (the body of `with st.spinner`): an exception in
\* parse_query ends it; otherwise the filters, the caller's frame as
\* search_properties leaves it, the results, the summary and the cards.
answer(f, found) ==
    [raised |-> FALSE,
     filters |-> f,
     df |-> found.df,
     results |-> found.result,
     summary |-> generate_summary(found.result, f),
     cards |-> render_cards(found.result)]

search_and_answer(table, f) == answer(f, search_properties(table, f, DEFAULT_LIMIT))

filters_of(parsed) == [k \in DOMAIN NO_FILTERS |-> parsed[k]]

process_parsed(table, parsed) ==
    IF parsed.raised
    THEN [raised |-> TRUE]
    ELSE search_and_answer(table, filters_of(parsed))

process_query(table, q) == process_parsed(table, parse_query(q))

\* the inputs of a session
MaxQueries == 2     \* queries processed in one session
MaxAppRows == 2     \* rows of the session's listing table

\* the sequences over S of length at most n
RECURSIVE SeqsUpTo(_, _)
SeqsUpTo(S, n) ==
    IF n = 0 THEN {<< >>}
    ELSE SeqsUpTo(S, n - 1)
            \cup {Append(t, x) : t \in {u \in SeqsUpTo(S, n - 1) : Len(u) = n - 1}, x \in S}

Listing(projectName, fullAddress, landmark, type, price, status, carpetArea, bathrooms, lift, parkingType, balcony) ==
    [projectName |-> projectName, fullAddress |-> fullAddress, landmark |-> landmark,
     type |-> type, price |-> price, status |-> status, carpetArea |-> carpetArea,
     bathrooms |-> bathrooms, lift |-> lift, parkingType |-> parkingType,
     balcony |-> balcony]

\* rows of the joined table; a left join leaves NaN where a side has no match
PuneFlat ==
    Listing(Val("Skyline Towers"), Val("Baner Road, Pune"), Val("Baner"), Val("3BHK"),
            Val(11000000), Val("READY_TO_MOVE"), Val(1200), Val(3), Val(TRUE),
            Val("COVERED"), Val(2))
MumbaiFlat ==
    Listing(Val("Sea Breeze"), Val("Chembur East, MUMBAI"), Val("Chembur"), Val("2BHK"),
            Val(8000000), Val("READY_TO_MOVE"), NaN, Val(2), Val(FALSE), NaN, Val(0))
BareFlat ==
    Listing(NaN, NaN, NaN, Val("1BHK"), NaN, Val("UNDER_CONSTRUCTION"), NaN, NaN, NaN,
            NaN, NaN)
FreeFlat ==
    Listing(Val("Green Acres"), Val("Wakad, Pune"), NaN, Val("3BHK"), Val(0), NaN,
            Val(900), NaN, NaN, Val("OPEN"), NaN)
CheapFlat ==
    Listing(Val("Metro Heights"), Val("Andheri, Mumbai"), Val("Andheri"), Val("3BHK"),
            Val(6000000), Val("UNDER_CONSTRUCTION"), Val(650), Val(1), Val(TRUE), NaN,
            Val(1))

AppRows == {PuneFlat, BareFlat}
AppTables == SeqsUpTo(AppRows, MaxAppRows)

\* what a user types into the chat input
ChatQueries == {
    "hello",
    "pune or mumbai",
    "3 bhk in Bombay under 1.2.3 cr",
    "ready flats under " \o RUPEE \o "1.2.3 cr" }

\* process_query for every table and query text of a session, computed once
AppQueries == ChatQueries \cup {example_queries[i] : i \in DOMAIN example_queries}

processed_queries ==
    [t \in AppTables |-> [q \in AppQueries |-> process_query(t, q)]]

processed_query(table, q) == processed_queries[table][q]

\* the rest of a run that has a query: an exception ends the run after the user
\* message has been appended, otherwise the answer is shown and stored
Respond(with_user, q, out) ==
    IF out.raised
    THEN /\ session_state' = with_user
         /\ pc' = "raised"
         /\ query' = q
         /\ UNCHANGED <<df, filters, limit, results, summary, cards>>
    ELSE /\ session_state' =
                 append_message(with_user,
                                [role |-> "assistant",
                                 content |-> out.summary,
                                 properties |-> out.results])
         /\ pc' = "done"
         /\ query' = q
         /\ df' = out.df
         /\ filters' = out.filters
         /\ limit' = DEFAULT_LIMIT
         /\ results' = out.results
         /\ summary' = out.summary
         /\ cards' = out.cards

\* `if query:` and what follows the taking of the query
Handle(taken) ==
    IF truthy_str(taken.query)
    THEN Respond(append_message(taken.state,
                                [role |-> "user", content |-> taken.query[2]]),
                 taken.query,
                 processed_query(df, taken.query[2]))
    ELSE /\ session_state' = taken.state
         /\ pc' = "idle"
         /\ query' = None
         /\ filters' = NO_FILTERS
         /\ results' = << >>
         /\ summary' = ""
         /\ cards' = << >>
         /\ UNCHANGED <<df, limit>>

\* One run of the script with the given widget values: `clicked` is the example
\* whose button returns True (None: no button), `typed` is the value of
\* st.chat_input (None: nothing submitted).
Rerun(clicked, typed) ==
    Handle(take_query(init_history(sidebar(session_state, clicked)), typed))

----------------------------------------------------------------------------
(* inputs *)

MaxWords == 3       \* words of a query handed to parse_query
MaxRows == 3        \* rows of a table handed to search_properties
MaxLimit == 2       \* limit handed to search_properties

\* the words queries for parse_query are made of
Words == {
    "Pune", "Mumbai", "bengaluru", "chinchwad", "3BHK", "2 bhk", "flat in", "under",
    "under 1.2 Cr", "under 80 lakhs", "under 0 cr", "under 1.2.3 cr",
    "under " \o RUPEE \o "1.2 Cr", "under " \o CURRENCY_REQUIRED \o " .5 lakh",
    "ready to move", "under construction" }

RECURSIVE QueriesOf(_)
QueriesOf(n) ==
    IF n = 0 THEN {""}
    ELSE {IF q = "" THEN w ELSE q \o " " \o w : q \in QueriesOf(n - 1), w \in Words}

Queries ==
    UNION {QueriesOf(n) : n \in 0..MaxWords}
        \cup {example_queries[i] : i \in DOMAIN example_queries}

CoreRows == {PuneFlat, MumbaiFlat, BareFlat, FreeFlat, CheapFlat}
CoreTables == SeqsUpTo(CoreRows, MaxRows)

CoreFilters ==
    [city : {None, Val("Pune"), Val("Mumbai")},
     bhk : {None, Val("3BHK")},
     budget_max : {None, Val(0), Val(8000000), Val(12000000)},
     possession : {None, Val("READY_TO_MOVE")}]

Columns == DOMAIN PuneFlat

\* rows for the card formatter: every combination of present and missing
\* cells, and rows of tables that lack some columns
FullCardRows ==
    [projectName : {NaN, Val("Skyline Towers")},
     fullAddress : {Val("Baner Road, Pune")},
     landmark : {NaN, Val("Baner")},
     type : {NaN, Val("3BHK")},
     price : {NaN, Val(0), Val(9000000), Val(12000000)},
     status : {NaN, Val("READY_TO_MOVE"), Val("UNDER_CONSTRUCTION")},
     carpetArea : {NaN, Val(1200)},
     bathrooms : {NaN, Val(2)},
     lift : {NaN, Val(TRUE), Val(FALSE)},
     parkingType : {NaN, Val("COVERED")},
     balcony : {NaN, Val(0), Val(2)}]

MissingColumns == {{}, {"projectName", "landmark", "type"}, {"price", "status", "balcony"}}

CardRows == {[k \in Columns \ d |-> r[k]] : r \in FullCardRows, d \in MissingColumns}

----------------------------------------------------------------------------
(* the session: reruns of the script *)

UserCount(state) ==
    IF "messages" \in DOMAIN state
    THEN Cardinality({i \in DOMAIN state.messages : state.messages[i].role = "user"})
    ELSE 0

Init ==
    /\ df \in AppTables
    /\ session_state = [k \in {} |-> None]
    /\ pc = "idle"
    /\ query = None
    /\ filters = NO_FILTERS
    /\ limit = DEFAULT_LIMIT
    /\ results = << >>
    /\ summary = ""
    /\ cards = << >>

\* a click on a sidebar example button
ButtonClick ==
    /\ UserCount(session_state) < MaxQueries
    /\ \E i \in DOMAIN example_queries : Rerun(Val(example_queries[i]), None)

\* a text submitted in the chat input
ChatSubmit ==
    /\ UserCount(session_state) < MaxQueries
    /\ \E t \in ChatQueries : Rerun(None, Val(t))

\* a rerun that no query widget caused
Refresh == Rerun(None, None)

Next == ButtonClick \/ ChatSubmit \/ Refresh

Spec == Init /\ [][Next]_vars

----------------------------------------------------------------------------
(* parse_query on its own *)

InitParse ==
    /\ query \in {Val(q) : q \in Queries}
    /\ pc = "start"
    /\ df = << >>
    /\ session_state = [k \in {} |-> None]
    /\ filters = NO_FILTERS
    /\ limit = DEFAULT_LIMIT
    /\ results = << >>
    /\ summary = ""
    /\ cards = << >>

Parse ==
    /\ pc = "start"
    /\ LET parsed == parse_query(query[2])
       IN IF parsed.raised
          THEN pc' = "raised" /\ UNCHANGED filters
          ELSE pc' = "parsed" /\ filters' = [k \in DOMAIN NO_FILTERS |-> parsed[k]]
    /\ UNCHANGED <<df, session_state, query, limit, results, summary, cards>>

SpecParse == InitParse /\ [][Parse]_vars

----------------------------------------------------------------------------
(* search_properties, generate_summary and format_property_card on their own *)

InitCore ==
    /\ df \in CoreTables
    /\ filters \in CoreFilters
    /\ limit \in 0..MaxLimit
    /\ pc = "parsed"
    /\ query = None
    /\ session_state = [k \in {} |-> None]
    /\ results = << >>
    /\ summary = ""
    /\ cards = << >>

Search ==
    /\ pc = "parsed"
    /\ LET found == search_properties(df, filters, limit)
       IN df' = found.df /\ results' = found.result
    /\ pc' = "searched"
    /\ UNCHANGED <<session_state, query, filters, limit, summary, cards>>

Summarize ==
    /\ pc = "searched"
    /\ summary' = generate_summary(results, filters)
    /\ pc' = "summarized"
    /\ UNCHANGED <<df, session_state, query, filters, limit, results, cards>>

Render ==
    /\ pc = "summarized"
    /\ cards' = render_cards(results)
    /\ pc' = "done"
    /\ UNCHANGED <<df, session_state, query, filters, limit, results, summary>>

NextCore == Search \/ Summarize \/ Render

SpecCore == InitCore /\ [][NextCore]_vars

InitCard ==
    /\ \E row \in CardRows : df = << row >> /\ results = << row >>
    /\ pc = "summarized"
    /\ query = None
    /\ session_state = [k \in {} |-> None]
    /\ filters = NO_FILTERS
    /\ limit = DEFAULT_LIMIT
    /\ summary = ""
    /\ cards = << >>

SpecCard == InitCard /\ [][Render]_vars

----------------------------------------------------------------------------
(* the properties *)

\* the chat history of a session state
Messages(state) == IF "messages" \in DOMAIN state THEN state.messages ELSE << >>

\* a row satisfies every predicate whose filter field is non-null
Satisfies(row, f) ==
    /\ f.city # None =>
            /\ notna(row.fullAddress)
            /\ Contains(lower(row.fullAddress[2]), lower(f.city[2]))
    /\ f.bhk # None => notna(row.type) /\ row.type[2] = f.bhk[2]
    /\ f.budget_max # None => notna(row.price) /\ row.price[2] <= f.budget_max[2]
    /\ f.possession # None => notna(row.status) /\ row.status[2] = f.possession[2]

Searched == pc \in {"searched", "summarized", "done"}

\* C1: the sequence search_properties returns has at most `limit` rows, and
\* every returned row satisfies every predicate whose filter field is non-null
\* (a budget_max of 0 included).
C1_ResultsWithinLimitAndMatching ==
    Searched =>
        /\ Len(results) <= limit
        /\ \A i \in DOMAIN results : Satisfies(results[i], filters)

\* the cities with a variation in the lower-cased text, as indices of the mapping
CitiesPresent(query_lower) ==
    {k \in DOMAIN cities :
        \E j \in DOMAIN cities[k].variations :
            Contains(query_lower, cities[k].variations[j])}

\* C2: when the query holds variations of more than one city, parse_query
\* returns the title-cased name of the city that comes first in the mapping.
C2_FirstCityInMappingOrderWins ==
    pc = "parsed" =>
        LET present == CitiesPresent(lower(query[2]))
        IN Cardinality(present) > 1 =>
                filters.city = Val(title(cities[Min(present)].city_name))

MissingMarkers == {"nan", "Nan", "NaN", "None"}

\* C3: no card holds a null/missing marker, whichever cells of the row are NaN.
C3_NoMissingMarkerInCard ==
    pc = "done" =>
        \A i \in DOMAIN cards : \A m \in MissingMarkers : ~Contains(cards[i], m)

\* C4: the card price and the average-price sentence show a price of at least
\* 10,000,000 in the crore form, a price between 0 and 10,000,000 in the lakh
\* form, and a missing or non-positive price as "Price on request", never as a
\* zero amount.
C4_PriceBuckets ==
    pc = "done" =>
        /\ \A i \in DOMAIN cards :
                LET p == results[i].price
                IN IF notna(p) /\ p[2] >= CRORE
                   THEN Contains(cards[i], " Cr</div>")
                   ELSE IF notna(p) /\ p[2] > 0
                   THEN Contains(cards[i], " L</div>")
                   ELSE Contains(cards[i], ">" \o PRICE_ON_REQUEST \o "</div>")
        /\ LET prices == prices_of(results)
               total == sum(prices)
               n == Len(prices)
           IN n > 0 =>
                IF total >= CRORE * n THEN EndsWith(summary, " Cr.")
                ELSE IF total > 0 THEN EndsWith(summary, " L.")
                ELSE /\ EndsWith(summary, PRICE_ON_REQUEST \o ".")
                     /\ ~EndsWith(summary, RUPEE \o "0 L.")

\* the first n elements of a sequence
FirstRows(rows, n) == [i \in 1..(IF n < Len(rows) THEN n ELSE Len(rows)) |-> rows[i]]

\* C5: search_properties returns exactly the first `limit` rows, in table
\* order, of the rows that satisfy all predicates of the non-null filter
\* fields; with an all-null filter these are the first `limit` rows of the
\* table.
C5_FirstMatchingRowsInOrder ==
    Searched =>
        LET matches(r) == Satisfies(r, filters)
        IN results = FirstRows(SelectSeq(df, matches), limit)

\* the first sentence the claim describes: the count clause, then the
\* unit-type, city and budget clauses of the non-null filter fields
ClaimedFirstSentence(count, f) ==
    "Found " \o ToString(count) \o (IF count = 1 THEN " property" ELSE " properties")
    \o (IF f.bhk # None THEN " matching your " \o f.bhk[2] \o " requirement" ELSE "")
    \o (IF f.city # None THEN " in " \o f.city[2] ELSE "")
    \o (IF f.budget_max # None THEN " under " \o budget_str(f.budget_max[2]) ELSE "")
    \o "."

\* C6: for a non-empty result set the summary starts with the count clause
\* followed, in the order unit-type, city, budget, by exactly the clauses whose
\* filter field is non-null (a budget_max of 0 included), joined by single
\* spaces and ended by a period.
C6_FirstSentenceHasClausesOfNonNullFields ==
    (pc \in {"summarized", "done"} /\ results # << >>) =>
        LET expected == ClaimedFirstSentence(Len(results), filters)
        IN /\ StartsAt(summary, 1, expected)
           /\ \/ Len(summary) = Len(expected)
              \/ StartsAt(summary, Len(expected) + 1, " Average price is around ")

\* C7: no run raises, and when the table is empty or no row satisfies the
\* filters the summary of a processed query is the fixed message, the message
\* stored in the history is that summary with no properties, and no card is
\* rendered.
C7_NoResultsGiveTheFixedMessage ==
    /\ pc # "raised"
    /\ (pc = "done" /\ (df = << >> \/ \A i \in DOMAIN df : ~Satisfies(df[i], filters)))
        => /\ summary = NO_RESULTS
           /\ cards = << >>
           /\ LET last == Messages(session_state)[Len(Messages(session_state))]
              IN last.content = NO_RESULTS /\ last.properties = << >>

C7_Witness ==
    /\ pc = "done"
    /\ df # << >>
    /\ filters.bhk # None
    /\ \A i \in DOMAIN df : ~Satisfies(df[i], filters)
    /\ summary = NO_RESULTS

\* the budget pattern the claim describes, matched at position i: "under", an
\* optional currency text, a number and the unit, with optional white space
\* between them
claimed_budget_at(s, i, unit) ==
    LET b == SkipClass(s, i + Len("under"), Whitespace)
        c == IF StartsAt(s, b, lower(RUPEE)) THEN b + Len(RUPEE) ELSE b
        d == SkipClass(s, c, Whitespace)
        e == SkipClass(s, d, NumChars)
        f == SkipClass(s, e, Whitespace)
    IN IF StartsAt(s, i, "under") /\ e > d /\ StartsAt(s, f, unit)
       THEN Val(SubSeq(s, d, e - 1))
       ELSE None

claimed_budget(s, unit) ==
    LET hits == {i \in 1..Len(s) : claimed_budget_at(s, i, unit) # None}
    IN IF hits = {} THEN None ELSE claimed_budget_at(s, Min(hits), unit)

\* C8: budget_max is num x 10,000,000 for "under <num> cr" and num x 100,000 for
\* "under <num> lakh"; the lakh result overwrites the crore result, and
\* budget_max is null when neither pattern matches.
C8_BudgetFromUnderNumUnit ==
    pc = "parsed" =>
        LET cr == claimed_budget(lower(query[2]), "cr")
            lakh == claimed_budget(lower(query[2]), "lakh")
        IN filters.budget_max =
                IF lakh # None THEN Val(float_times(lakh[2], LAKH))
                ELSE IF cr # None THEN Val(float_times(cr[2], CRORE))
                ELSE None

\* every answer in the history is the answer to the user message before it,
\* computed from that message's text and the table alone
AnswersFollowFromQueryAndTable(state, table) ==
    LET msgs == Messages(state)
    IN \A i \in DOMAIN msgs :
            msgs[i].role = "assistant" =>
                /\ i > 1
                /\ msgs[i - 1].role = "user"
                /\ LET out == processed_query(table, msgs[i - 1].content)
                   IN /\ ~out.raised
                      /\ msgs[i].content = out.summary
                      /\ msgs[i].properties = out.results

\* C9: no rerun changes the listing table, and after every rerun each answer
\* of the session is the one computed from its query text and the table alone.
C9_TableUnchangedAnswersFromQueryAndTable ==
    [][df' = df /\ AnswersFollowFromQueryAndTable(session_state', df)]_vars

C9_Witness ==
    /\ pc = "done"
    /\ Len(Messages(session_state)) = 4
    /\ results # << >>
    /\ Len(results) < Len(df)
    /\ Messages(session_state)[2].properties # results

\* C10: a rerun that receives a query appends one user message holding it and
\* then one assistant message, a rerun without a query leaves the history as
\* it is, no rerun changes or removes an earlier entry, and no rerun leaves a
\* pending sidebar query in the session state.
C10_EachQueryProcessedOnce ==
    [][LET old == Messages(session_state)
           new == Messages(session_state')
       IN /\ "current_query" \notin DOMAIN session_state'
          /\ IF query' # None
             THEN /\ Len(new) = Len(old) + 2
                  /\ SubSeq(new, 1, Len(old)) = old
                  /\ new[Len(old) + 1] = [role |-> "user", content |-> query'[2]]
                  /\ new[Len(old) + 2].role = "assistant"
                  /\ new[Len(old) + 2].content = summary'
             ELSE new = old]_vars

C10_Witness ==
    /\ pc = "done"
    /\ query = Val(example_queries[2])
    /\ Len(Messages(session_state)) = 4
    /\ Messages(session_state)[1].content = "hello"
    /\ "current_query" \notin DOMAIN session_state

====
